---- MODULE Spec2Model ----
(***************************************************************************)
(* A model of the client-side cache manager (src/lib/cache-manager.ts),    *)
(* the notification context (src/contexts/NotificationContext.tsx) and the *)
(* sign-out path of the auth context (src/lib/theme.tsx) of the Regina     *)
(* group-management application.                                           *)
(*                                                                         *)
(* Time is Date.now() in milliseconds.  The clock only takes the instants  *)
(* of TimePoints, which are chosen so that every configured duration is    *)
(* met below, at, and above its boundary.                                  *)
(***************************************************************************)
EXTENDS Integers, Sequences, FiniteSets, TLC

VARIABLES
    storage,     \* localStorage: physical key -> serialized item
    now,         \* Date.now()
    versions,    \* the version field of every CACHE_CONFIGS entry, and of the default
    nSets,       \* number of set() calls whose write succeeded
    hist,        \* per key: the entry of the last set() whose write succeeded
    ret          \* the last cache-manager call: its name, key, result and events

cacheVars == <<storage, now, versions, nSets, hist, ret>>

\* NotificationProvider (second variant of NotificationContext.tsx)
VARIABLES
    nUser,       \* the user useAuth() hands to the provider, or Null
    isSaving,    \* the isSaving state
    saveEnded,   \* a save has ended (isSaving went from true to false)
    subs,        \* handler sets registered by the subscription effect, each with
                 \* the isSaving its closures captured
    clock,       \* Date.now() of the provider
    timers,      \* pending setTimeout callbacks of the handlers
    reloads,     \* loader invocations so far: slice, causing event, handler set
    log          \* change events delivered so far

notifVars == <<nUser, isSaving, saveEnded, subs, clock, timers, reloads, log>>

\* AuthProvider (first variant of theme.tsx)
VARIABLES
    authUser,      \* the user state, or Null
    session,       \* the user whose backend session the tab holds, or Null
    profile,       \* the profile state: the id of the profile, or Null
    loading,       \* the loading state
    visible,       \* document.visibilityState is 'visible'
    hbUser,        \* the user the live presence interval was started for, or Null
    localOnline,   \* the 'regina_online_status' record: absent, online or offline
    sessionIdRec,  \* the 'regina_session_id' record exists
    backendOnline, \* profiles.is_online of every user
    inflight,      \* profile updates (and beacons) issued and not yet answered
    initLookup,    \* the getSession() call of getInitialSession: pending or answered
    initRace,      \* the race of getInitialSession: racing, or how it was settled
    siPc,          \* where a running signIn() is
    siUser,        \* the user a running signIn() authenticates
    soPc,          \* where a running signOut() is
    soUser,        \* the user the running signOut() found
    soLog,         \* what the last signOut() has done so far, in order
    soError,       \* supabase.auth.signOut() reported an error to the last signOut()
    teardownRec,   \* the online-status record when the last signOut() tore the session down
    tornBy,        \* who ended the tab's last session: signOut, signIn or the backend
    authAct        \* the last handler of the provider that ran

authVars == <<authUser, session, profile, loading, visible, hbUser, localOnline,
              sessionIdRec, backendOnline, inflight, initLookup, initRace, siPc, siUser,
              soPc, soUser, soLog, soError, teardownRec, tornBy, authAct>>

\* one call of loadProfileWithCache
VARIABLES
    lpPc,          \* where the call stands: idle, query, wait, resolved, rejected
    lpUser,        \* its userId
    lpRetry,       \* its retryCount
    lpAttempts,    \* profile queries it has sent to the backend
    lpWaits,       \* the delays it has waited before its retries, in order
    lpThrown       \* the error its last query ended with

loadVars == <<lpPc, lpUser, lpRetry, lpAttempts, lpWaits, lpThrown>>

\* calls of preWarm
VARIABLES
    warm           \* per call: where it stands, its key, the fetcher invocations it
                   \* made, and how it ended

warmVars == <<warm>>

\* the notification context's data: the backend rows it counts, its state slices,
\* and its loaders and mutations in flight
VARIABLES
    bUnread,                   \* backend: ids of the user's unread comment notifications
    bMessages,                 \* backend: number of the user's unread messages
    expiringDomainsCount,
    unreadNotificationsCount,
    unreadMessagesCount,
    commentNotifications,      \* ids of the comment notifications in state
    unreadCommentCount,
    nLoading,                  \* the loading flag of the notification context
    dPc,                       \* loadDomainExpiryData: idle, or awaiting its query
    cPc,                       \* loadCommentNotifications: idle, or awaiting its query
    counts,                    \* per invocation of loadNotificationAndMessageCounts:
                               \* where it stands and the cachedMessages it read
    refreshing,                \* the loaders refreshAllData() still awaits
    mPc,                       \* markCommentAsRead / clearAllComments in flight
    last                       \* the last step of the notification data layer

dataVars == <<bUnread, bMessages, expiringDomainsCount, unreadNotificationsCount,
              unreadMessagesCount, commentNotifications, unreadCommentCount, nLoading,
              dPc, cPc, counts, refreshing, mPc, last>>

-----------------------------------------------------------------------------
(* Bounds *)

\* successful set() calls in one behaviour
MaxSets == 2
\* releases (changes of a configured version) in one behaviour
MaxDeploys == 1

-----------------------------------------------------------------------------
(* Constants of the source *)

Minute == 60 * 1000

prefix == "regina_cache_"

\* JavaScript null (the data stored are the objects 1, 2, ...)
Null == 0

\* JavaScript undefined, as the value of a field that an object read from the store
\* does not have: as a number, and as a version string
Undefined == -1
UndefinedVersion == "undefined"

\* the data handed to set(): JSON objects, which JSON.stringify/parse preserve.
\* A set() call that follows n successful ones stores the object n + 1.
Value(n) == n

ConfiguredKeys ==
    {"projects", "dashboard", "profile", "adminSettings", "notifications", "domainExpiry"}

\* CACHE_CONFIGS[k].duration
ConfigDuration(k) ==
    CASE k = "projects"      -> 5 * 60 * 1000
      [] k = "dashboard"     -> 5 * 60 * 1000
      [] k = "profile"       -> 45 * 60 * 1000
      [] k = "adminSettings" -> 30 * 60 * 1000
      [] k = "notifications" -> 2 * 60 * 1000
      [] k = "domainExpiry"  -> 1 * 60 * 1000

\* CACHE_CONFIGS[k].version as shipped
ConfigVersion(k) == IF k = "profile" THEN "1.1" ELSE "1.0"

\* the fallback { duration: 5 * 60 * 1000, version: '1.0' } of set and shouldRefresh
DefaultDuration == 5 * 60 * 1000
DefaultVersion == "1.0"
DefaultKey == "(default)"

\* the keys the callers are modelled with: four configured ones, and one of the
\* notification context that CACHE_CONFIGS does not configure
Keys == {"projects", "dashboard", "profile", "domainExpiry", "notification-counts"}

\* the instants the clock takes under Spec: around the 1 minute of 'domainExpiry'
\* (set at 44 min) and the 45 minutes of 'profile' (set at 0)
TimePoints == {0, 44 * Minute, 45 * Minute, 46 * Minute}

\* the instants the clock takes under SpecRefresh: around half of 1 minute and
\* half of 5 minutes
RefreshTimePoints == {0, 30 * 1000, 60 * 1000, 150 * 1000, 180 * 1000}

\* a release of the application may change a configured version, or the default one
NextVersion(v) == IF v = "1.0" THEN "1.1" ELSE "1.2"
DeployTargets == {"profile", DefaultKey}

-----------------------------------------------------------------------------
(* The cache manager *)

IsConfigured(k) == k \in ConfiguredKeys

ShippedVersion(d) == IF d = DefaultKey THEN DefaultVersion ELSE ConfigVersion(d)

\* const config = CACHE_CONFIGS[key] || { duration: 5 * 60 * 1000, version: '1.0' }
ConfigOrDefault(k) ==
    IF IsConfigured(k)
    THEN [duration |-> ConfigDuration(k), version |-> versions[k]]
    ELSE [duration |-> DefaultDuration, version |-> versions[DefaultKey]]

\* this.prefix + key
PKey(k) == <<prefix, k>>

\* JSON.stringify(entry) and JSON.parse(item): an item is the text of the four fields.
\* An item of another length is a text on which the try block of a reader throws:
\* one that is not JSON, or the JSON text null, whose fields cannot be read.
Stringify(entry) == <<entry.data, entry.timestamp, entry.version, entry.expiresAt>>
ParseThrows(item) == Len(item) # 4

\* contents that set() did not write: the empty string, a text that is not JSON,
\* the JSON text null, the object {} and an object { data, version } without
\* timestamp and expiresAt
EmptyText == <<"">>
NotJson == <<>>
JsonNull == <<"null">>
EmptyObject == <<Undefined, Undefined, UndefinedVersion, Undefined>>
PartialObject == <<Value(1), Undefined, DefaultVersion, Undefined>>
MalformedItems == {EmptyText, NotJson, JsonNull, EmptyObject, PartialObject}

\* !item for an item that getItem returned: the empty string
IsEmptyText(item) == Len(item) = 1 /\ item[1] = ""

\* the item is the text of an entry object: all four fields are there
IsEntryText(item) ==
    /\ Len(item) = 4
    /\ item[1] # Undefined /\ item[2] # Undefined
    /\ item[3] # UndefinedVersion /\ item[4] # Undefined
Parse(item) ==
    [data |-> item[1], timestamp |-> item[2], version |-> item[3], expiresAt |-> item[4]]

HasItem(st, k) == PKey(k) \in DOMAIN st

Remove(st, pk) == [q \in DOMAIN st \ {pk} |-> st[q]]
Put(st, pk, item) == [q \in DOMAIN st \cup {pk} |-> IF q = pk THEN item ELSE st[q]]

\* the entry set() builds
MakeEntry(k, v, t) ==
    [data |-> v, timestamp |-> t, version |-> ConfigOrDefault(k).version,
     expiresAt |-> t + ConfigOrDefault(k).duration]

\* a faulty variant of invalidate, which forgets the prefix: removeItem(key)
InvalidateUnprefixed(st, k) == Remove(st, <<"", k>>)

\* invalidate(key): localStorage.removeItem(this.prefix + key)
Invalidate(st, k) == Remove(st, PKey(k))

InvalidateAll(st, ks) == [q \in DOMAIN st \ {PKey(k) : k \in ks} |-> st[q]]

\* faulty variants of the expiry test: against the time of writing, and inclusive
IsExpiredByTimestamp(entry, t) == t > entry.timestamp
IsExpiredInclusive(entry, t) == t >= entry.expiresAt
\* Date.now() > entry.expiresAt, which is false for an entry without expiresAt
IsExpired(entry, t) == entry.expiresAt # Undefined /\ t > entry.expiresAt

\* a faulty variant of the version test: none
NoVersionCheck(k, entry) == FALSE
\* config && entry.version !== config.version
VersionMismatch(k, entry) == IsConfigured(k) /\ entry.version # versions[k]

\* a faulty variant of clearExpired, which removes every prefixed item
ClearExpiredEverything(st, t) == [q \in {p \in DOMAIN st : p[1] # prefix} |-> st[q]]
\* clearExpired(): every prefixed item that is not the empty string, and is expired
\* or makes the reader throw, is removed
ClearExpired(st, t) ==
    [q \in {p \in DOMAIN st :
              ~(/\ p[1] = prefix
                /\ ~IsEmptyText(st[p])
                /\ (ParseThrows(st[p]) \/ IsExpired(Parse(st[p]), t)))}
       |-> st[q]]

\* clearAll(): every prefixed item is removed
ClearAllItems(st) == [q \in {p \in DOMAIN st : p[1] # prefix} |-> st[q]]

\* get(key): the value returned and the store left behind
CacheGet(st, t, k) ==
    IF ~HasItem(st, k) THEN [result |-> Null, storage |-> st]
    ELSE IF IsEmptyText(st[PKey(k)]) THEN [result |-> Null, storage |-> st]
    ELSE IF ParseThrows(st[PKey(k)]) THEN [result |-> Null, storage |-> Invalidate(st, k)]
    ELSE IF IsExpired(Parse(st[PKey(k)]), t)
         THEN [result |-> Null, storage |-> Invalidate(st, k)]
    ELSE IF VersionMismatch(k, Parse(st[PKey(k)]))
         THEN [result |-> Null, storage |-> Invalidate(st, k)]
    ELSE [result |-> Parse(st[PKey(k)]).data, storage |-> st]

\* getAge(key): Date.now() - entry.timestamp, or null (-1 here) without a parsable item
NoAge == -1
GetAge(st, t, k) ==
    IF ~HasItem(st, k) THEN NoAge
    ELSE IF IsEmptyText(st[PKey(k)]) \/ ParseThrows(st[PKey(k)]) THEN NoAge
    ELSE t - Parse(st[PKey(k)]).timestamp

\* has(key): this.get(key) !== null
Has(st, t, k) == CacheGet(st, t, k).result # Null

\* isFresh(key, freshnessThreshold = 5 * 60 * 1000): age !== null && age < threshold
freshnessThreshold == 5 * 60 * 1000
IsFresh(st, t, k) ==
    GetAge(st, t, k) # NoAge /\ GetAge(st, t, k) < freshnessThreshold

\* a faulty variant of shouldRefresh: age >= config.duration / 2
ShouldRefreshInclusive(st, t, k) ==
    GetAge(st, t, k) = NoAge \/ 2 * GetAge(st, t, k) >= ConfigOrDefault(k).duration
\* shouldRefresh(key): age > config.duration / 2
ShouldRefresh(st, t, k) ==
    GetAge(st, t, k) = NoAge \/ 2 * GetAge(st, t, k) > ConfigOrDefault(k).duration

\* a faulty variant of the list below, without 'notification-counts'
DomainCacheKeysShort ==
    {"projects", "dashboard", "notifications", "domainExpiry",
     "notification-domain-expiry", "message-counts"}
\* the keys invalidateDomainCaches() invalidates
DomainCacheKeys ==
    {"projects", "dashboard", "notifications", "domainExpiry",
     "notification-domain-expiry", "notification-counts", "message-counts"}

Tables == {"domains", "projects", "notifications", "messages"}
Operations == {"INSERT", "UPDATE"}

\* invalidateOnDataChange(tableName, operation): the keys invalidated
RoutedKeys(table) ==
    CASE table = "domains"       -> DomainCacheKeys
      [] table = "projects"      -> {"projects", "dashboard"}
      [] table = "notifications" -> {"notifications", "domainExpiry"}
      [] OTHER                   -> {"projects", "dashboard"}

\* ... and the 'domainDataChanged' events dispatched
RoutedEvents(table) == IF table = "domains" THEN 1 ELSE 0

-----------------------------------------------------------------------------
(* History kept for the properties *)

NoEntry == [data |-> Null, timestamp |-> 0, version |-> "none", expiresAt |-> 0]
NoHist == NoEntry

Forget(h, ks) == [k \in Keys |-> IF k \in ks THEN NoHist ELSE h[k]]

Bool(b) == IF b THEN 1 ELSE 0

\* the record of a call: its name, its key (or table), the value returned, the
\* 'domainDataChanged' events it dispatched and the items it removed from the store
Ret(op, k, v, n, st1, st2) ==
    [op |-> op, key |-> k, val |-> v, events |-> n,
     removed |-> Cardinality(DOMAIN st1 \ DOMAIN st2)]

-----------------------------------------------------------------------------
(* Actions of the cache manager *)

CacheInit ==
    /\ storage = <<>>
    /\ now = 0
    /\ versions = [k \in ConfiguredKeys \cup {DefaultKey} |-> ShippedVersion(k)]
    /\ nSets = 0
    /\ hist = [k \in Keys |-> NoHist]
    /\ ret = Ret("init", "", Null, 0, <<>>, <<>>)

\* time passes
Tick ==
    /\ \E t \in TimePoints : t > now /\ now' = t
    /\ ret' = Ret("tick", "", Null, 0, storage, storage)
    /\ UNCHANGED <<storage, versions, nSets, hist>>
    /\ UNCHANGED <<notifVars, authVars, loadVars, warmVars, dataVars>>

TickRefresh ==
    /\ \E t \in RefreshTimePoints : t > now /\ now' = t
    /\ ret' = Ret("tick", "", Null, 0, storage, storage)
    /\ UNCHANGED <<storage, versions, nSets, hist>>
    /\ UNCHANGED <<notifVars, authVars, loadVars, warmVars, dataVars>>

\* a release changes the version configured for a key (or the default version)
Deploy ==
    /\ Cardinality({d \in DeployTargets : versions[d] # ShippedVersion(d)}) < MaxDeploys
    /\ \E d \in DeployTargets :
         /\ versions[d] = ShippedVersion(d)
         /\ versions' = [versions EXCEPT ![d] = NextVersion(@)]
    /\ ret' = Ret("deploy", "", Null, 0, storage, storage)
    /\ UNCHANGED <<storage, now, nSets, hist>>
    /\ UNCHANGED <<notifVars, authVars, loadVars, warmVars, dataVars>>

\* set(key, data); setItem stores the item, or throws (quota) and clearExpired() runs
Set ==
    /\ nSets < MaxSets
    /\ \E k \in Keys, ok \in BOOLEAN :
         LET v == Value(nSets + 1) IN
         /\ storage' = IF ok THEN Put(storage, PKey(k), Stringify(MakeEntry(k, v, now)))
                             ELSE ClearExpired(storage, now)
         /\ hist' = IF ok THEN [hist EXCEPT ![k] = MakeEntry(k, v, now)] ELSE hist
         /\ nSets' = IF ok THEN nSets + 1 ELSE nSets
         /\ ret' = Ret("set", k, v, 0, storage, storage')
    /\ UNCHANGED <<now, versions>>
    /\ UNCHANGED <<notifVars, authVars, loadVars, warmVars, dataVars>>

\* get(key)
Get ==
    /\ \E k \in Keys :
         /\ storage' = CacheGet(storage, now, k).storage
         /\ ret' = Ret("get", k, CacheGet(storage, now, k).result, 0, storage, storage')
    /\ UNCHANGED <<now, versions, nSets, hist>>
    /\ UNCHANGED <<notifVars, authVars, loadVars, warmVars, dataVars>>

\* shouldRefresh(key)
ShouldRefreshCall ==
    /\ \E k \in Keys :
         ret' = Ret("shouldRefresh", k, Bool(ShouldRefresh(storage, now, k)), 0,
                    storage, storage)
    /\ UNCHANGED <<storage, now, versions, nSets, hist>>
    /\ UNCHANGED <<notifVars, authVars, loadVars, warmVars, dataVars>>

\* the keys under which foreign content is modelled: a configured one and one
\* without configuration
ForeignKeys == {"profile", "notification-counts"}

\* something other than set() leaves content under a cache key: an earlier release,
\* another script of the origin, a hand edit
ForeignWrite ==
    /\ \E k \in ForeignKeys, item \in MalformedItems :
         /\ storage' = Put(storage, PKey(k), item)
         /\ hist' = Forget(hist, {k})
         /\ ret' = Ret("foreignWrite", k, Null, 0, storage, storage')
    /\ UNCHANGED <<now, versions, nSets>>
    /\ UNCHANGED <<notifVars, authVars, loadVars, warmVars, dataVars>>

\* invalidate(key)
InvalidateCall ==
    /\ \E k \in Keys :
         /\ storage' = Invalidate(storage, k)
         /\ hist' = Forget(hist, {k})
         /\ ret' = Ret("invalidate", k, Null, 0, storage, storage')
    /\ UNCHANGED <<now, versions, nSets>>
    /\ UNCHANGED <<notifVars, authVars, loadVars, warmVars, dataVars>>

\* invalidateOnDataChange(tableName, operation)
InvalidateOnDataChange ==
    /\ \E table \in Tables, operation \in Operations :
         /\ storage' = InvalidateAll(storage, RoutedKeys(table))
         /\ hist' = Forget(hist, RoutedKeys(table))
         /\ ret' = Ret("invalidateOnDataChange", table, Null, RoutedEvents(table),
                        storage, storage')
    /\ UNCHANGED <<now, versions, nSets>>
    /\ UNCHANGED <<notifVars, authVars, loadVars, warmVars, dataVars>>

\* clearAll()
ClearAll ==
    /\ storage' = ClearAllItems(storage)
    /\ hist' = Forget(hist, Keys)
    /\ ret' = Ret("clearAll", "", Null, 0, storage, storage')
    /\ UNCHANGED <<now, versions, nSets>>
    /\ UNCHANGED <<notifVars, authVars, loadVars, warmVars, dataVars>>

\* clearExpired()
ClearExpiredCall ==
    /\ storage' = ClearExpired(storage, now)
    /\ ret' = Ret("clearExpired", "", Null, 0, storage, storage')
    /\ UNCHANGED <<now, versions, nSets, hist>>
    /\ UNCHANGED <<notifVars, authVars, loadVars, warmVars, dataVars>>

\* the themes setTheme stores
Themes == {"dark", "light"}

\* setTheme(newTheme) of the theme provider: localStorage.setItem('theme', newTheme)
SetTheme ==
    /\ \E newTheme \in Themes :
         storage' = Put(storage, <<"", "theme">>, <<newTheme>>)
    /\ ret' = Ret("setTheme", "theme", Null, 0, storage, storage')
    /\ UNCHANGED <<now, versions, nSets, hist>>
    /\ UNCHANGED <<notifVars, authVars, loadVars, warmVars, dataVars>>

-----------------------------------------------------------------------------
(* The notification context: save state, change-feed handlers, debounce    *)
(* timers.  A reload of a slice is an invocation of the slice's loader.    *)

\* change events delivered in one behaviour
MaxEvents == 3
\* runs of the subscription effect that subscribe, in one behaviour
MaxSubscribes == 1

\* the delay of the handlers' setTimeout
DebounceMs == 1000

Users == {1}
ClockPoints == {0, 500, 1000, 1500, 2000}
SubscribedTables == {"domains", "notifications", "messages"}
Slices == {"domainExpiry", "counts", "comments"}

\* the slices the handlers of a table reload
SlicesOf(table) ==
    CASE table = "domains" -> {"domainExpiry"}
      [] table = "notifications" -> {"counts", "comments"}
      [] table = "messages" -> {"counts"}

Timer(slice, due, cause, sub) == [slice |-> slice, due |-> due, cause |-> cause, sub |-> sub]
Reload(slice, cause, sub) == [slice |-> slice, cause |-> cause, sub |-> sub]

\* the handler of channel 'notification-context-domains' of handler set j, whose
\* closure captured isSaving = saving, on event i at instant t
DomainHandler(saving, i, j, t) ==
    IF saving THEN {} ELSE {Timer("domainExpiry", t + DebounceMs, i, j)}

\* the handler of channel 'notification-context-comments'; comment: the payload is
\* of type 'comment' or an INSERT
CommentHandler(saving, comment, i, j, t) ==
    IF saving THEN {}
    ELSE IF comment THEN {Timer("comments", t + DebounceMs, i, j)}
    ELSE {}

\* the handlers of channels 'notification-context-notifications' and
\* 'notification-context-messages' call loadNotificationAndMessageCounts() at once
CountsHandler(i, j) == {Reload("counts", i, j)}

\* the timers the handlers of every registered handler set start for event i
StartedTimers(table, comment, i, t) ==
    UNION {IF table = "domains" THEN DomainHandler(subs[j].saving, i, j, t)
           ELSE IF table = "notifications"
                THEN CommentHandler(subs[j].saving, comment, i, j, t)
           ELSE {} : j \in 1..Len(subs)}

\* the loaders the handlers of every registered handler set call at once for event i
ImmediateReloads(table, i) ==
    UNION {IF table \in {"notifications", "messages"} THEN CountsHandler(i, j)
           ELSE {} : j \in 1..Len(subs)}

NotifInit ==
    /\ nUser = Null
    /\ isSaving = FALSE
    /\ saveEnded = FALSE
    /\ subs = <<>>
    /\ clock = 0
    /\ timers = {}
    /\ reloads = {}
    /\ log = <<>>

\* markSaveStart(), or a 'save-operation-start' event
MarkSaveStart ==
    /\ isSaving' = TRUE
    /\ UNCHANGED <<nUser, saveEnded, subs, clock, timers, reloads, log>>
    /\ UNCHANGED <<cacheVars, authVars, loadVars, warmVars, dataVars>>

\* markSaveEnd(), or a 'save-operation-end' event
MarkSaveEnd ==
    /\ isSaving' = FALSE
    /\ saveEnded' = (saveEnded \/ isSaving)
    /\ UNCHANGED <<nUser, subs, clock, timers, reloads, log>>
    /\ UNCHANGED <<cacheVars, authVars, loadVars, warmVars, dataVars>>

\* useAuth() hands the provider another user: the initial-load effect calls
\* refreshAllData(), and the subscription effect, if there is a user, registers its
\* four handlers, whose closures hold the isSaving of this render.  The effect
\* returns no cleanup, so no handler set is ever unsubscribed.
UserChange ==
    /\ \E u \in Users \cup {Null} :
         /\ u # nUser
         /\ u # Null => Len(subs) < MaxSubscribes
         /\ nUser' = u
         /\ subs' = IF u # Null THEN Append(subs, [user |-> u, saving |-> isSaving])
                    ELSE subs
    /\ reloads' = reloads \cup {Reload(sl, 0, 0) : sl \in Slices}
    /\ UNCHANGED <<isSaving, saveEnded, clock, timers, log>>
    /\ UNCHANGED <<cacheVars, authVars, loadVars, warmVars, dataVars>>

\* the change feed delivers an event of a table to the registered handlers
ChangeEvent ==
    /\ Len(subs) > 0
    /\ Len(log) < MaxEvents
    /\ \E table \in SubscribedTables, comment \in BOOLEAN :
         /\ comment => table = "notifications"
         /\ log' = Append(log, [table |-> table, comment |-> comment, at |-> clock,
                                saving |-> isSaving, afterSave |-> saveEnded])
         /\ timers' = timers \cup StartedTimers(table, comment, Len(log) + 1, clock)
         /\ reloads' = reloads \cup ImmediateReloads(table, Len(log) + 1)
    /\ UNCHANGED <<nUser, isSaving, saveEnded, subs, clock>>
    /\ UNCHANGED <<cacheVars, authVars, loadVars, warmVars, dataVars>>

\* a setTimeout callback of a handler runs: it calls the loader of its slice
TimerFires ==
    /\ \E tm \in timers :
         /\ tm.due <= clock
         /\ timers' = timers \ {tm}
         /\ reloads' = reloads \cup {Reload(tm.slice, tm.cause, tm.sub)}
    /\ UNCHANGED <<nUser, isSaving, saveEnded, subs, clock, log>>
    /\ UNCHANGED <<cacheVars, authVars, loadVars, warmVars, dataVars>>

\* time passes, up to the next pending timer
ClockTick ==
    /\ \E t \in ClockPoints :
         /\ t > clock
         /\ \A tm \in timers : tm.due >= t
         /\ clock' = t
    /\ UNCHANGED <<nUser, isSaving, saveEnded, subs, timers, reloads, log>>
    /\ UNCHANGED <<cacheVars, authVars, loadVars, warmVars, dataVars>>

-----------------------------------------------------------------------------
(* The auth context: session, presence and the sign-in and sign-out paths *)

AuthUsers == {1, 2}
\* the users whose profile is marked active on the backend
ActiveUsers == {1}

\* the user the closures of the mount effect hold: the user state of the first
\* render (useState(null)); the effect has no dependencies and never runs again
MountUser == Null

OnlineUpdate(user, online) == [user |-> user, online |-> online]

\* updateCachedOnlineStatus(userId, isOnline)
CachedOnlineStatus(isOnline) == IF isOnline THEN "online" ELSE "offline"

SignOutSteps ==
    <<"localOffline", "updateIssued", "updateAwaited", "sessionTornDown", "cacheCleared">>

\* a presence interval that survives the user becoming null
IntervalKept(interval, user) == IF user = Null THEN interval ELSE user
\* the presence effect after setUser(user): the cleanup clears the old interval,
\* and a new one is started if there is a user
IntervalAfter(interval, user) == user

\* a sign-out that leaves the cache alone
SignOutStoreKept(st) == st
\* the store after cacheManager.invalidate('profile') and cacheManager.clearAll()
SignOutStore(st) == ClearAllItems(Invalidate(st, "profile"))

initVars == <<initLookup, initRace>>
signInVars == <<siPc, siUser>>
signOutVars == <<soPc, soUser, soLog, soError, teardownRec>>
presenceVars == <<localOnline, sessionIdRec, inflight>>

\* the provider right after mount, in a tab holding the session of user s (or none):
\* getInitialSession() has issued its lookup and started the 3 s timer
AuthStart(s) ==
    /\ authUser = Null
    /\ session = s
    /\ profile = Null
    /\ loading = TRUE
    /\ visible = TRUE
    /\ hbUser = Null
    /\ localOnline = "absent"
    /\ sessionIdRec = FALSE
    /\ backendOnline = [u \in AuthUsers |-> FALSE]
    /\ inflight = {}
    /\ initLookup = "pending"
    /\ initRace = "racing"
    /\ siPc = "idle"
    /\ siUser = Null
    /\ soPc = "idle"
    /\ soUser = Null
    /\ soLog = <<>>
    /\ soError = FALSE
    /\ teardownRec = "none"
    /\ tornBy = "none"
    /\ authAct = "mount"

AuthInit == AuthStart(Null)

\* updateCachedOnlineStatus(u, true) and updateUserOnlineStatus(u, true), not awaited
AssertOnline(u) ==
    /\ localOnline' = CachedOnlineStatus(TRUE)
    /\ sessionIdRec' = TRUE
    /\ inflight' = inflight \cup {OnlineUpdate(u, TRUE)}

\* getSession() of getInitialSession answers, in time or after the timeout won the
\* race: with an error and no session, or with the session the tab holds
LookupAnswered ==
    /\ initLookup = "pending"
    /\ initLookup' = "answered"
    /\ \E error \in BOOLEAN :
         IF error
         THEN /\ authUser' = Null
              /\ hbUser' = IntervalAfter(hbUser, Null)
              /\ loading' = FALSE
              /\ initRace' = IF initRace = "racing" THEN "error" ELSE initRace
              /\ UNCHANGED presenceVars
         ELSE /\ authUser' = session
              /\ hbUser' = IntervalAfter(hbUser, session)
              /\ IF session # Null THEN AssertOnline(session) ELSE UNCHANGED presenceVars
              /\ loading' = IF initRace = "racing" THEN FALSE ELSE loading
              /\ initRace' = IF initRace = "racing" THEN "success" ELSE initRace
    /\ authAct' = "getInitialSession"
    /\ UNCHANGED <<session, profile, visible, backendOnline, tornBy>>
    /\ UNCHANGED <<signInVars, signOutVars>>
    /\ UNCHANGED <<cacheVars, notifVars, loadVars, warmVars, dataVars>>

\* the 3 s timer of getInitialSession wins the race: the catch logs, finally stops
\* loading, and the lookup stays pending
InitTimeout ==
    /\ initRace = "racing"
    /\ initRace' = "timeout"
    /\ loading' = FALSE
    /\ authAct' = "initTimeout"
    /\ UNCHANGED <<authUser, session, profile, visible, hbUser, backendOnline, tornBy,
                   initLookup>>
    /\ UNCHANGED <<presenceVars, signInVars, signOutVars>>
    /\ UNCHANGED <<cacheVars, notifVars, loadVars, warmVars, dataVars>>

\* the backend ends the tab's session (expiry, revocation, sign-out elsewhere)
SessionLost ==
    /\ session # Null
    /\ session' = Null
    /\ tornBy' = "backend"
    /\ authAct' = "sessionLost"
    /\ UNCHANGED <<authUser, profile, loading, visible, hbUser, backendOnline>>
    /\ UNCHANGED <<presenceVars, initVars, signInVars, signOutVars>>
    /\ UNCHANGED <<cacheVars, notifVars, loadVars, warmVars, dataVars>>

\* the onAuthStateChange callback, called with the tab's session or with none
OnAuthStateChange ==
    /\ authUser' = session
    /\ hbUser' = IntervalAfter(hbUser, session)
    /\ IF session # Null
       THEN AssertOnline(session) /\ UNCHANGED profile
       ELSE profile' = Null /\ UNCHANGED presenceVars
    /\ loading' = FALSE
    /\ authAct' = "onAuthStateChange"
    /\ UNCHANGED <<session, visible, backendOnline, tornBy>>
    /\ UNCHANGED <<initVars, signInVars, signOutVars>>
    /\ UNCHANGED <<cacheVars, notifVars, loadVars, warmVars, dataVars>>

\* the session check of the visibilitychange listener finds no session while its
\* closure holds a user
VisibilityFindsSessionLost == MountUser # Null /\ ~visible /\ session = Null

\* the visibilitychange listener, with the user its closure holds.  Hidden: that
\* user is recorded offline and the beacon is sent.  Visible: online is re-asserted
\* and the session is checked: a session refreshes the user state, no session
\* clears user, profile, the profile cache entry and the online-status record.
\* Without a user in the closure the listener changes nothing.
VisibilityChange ==
    /\ visible' = ~visible
    /\ IF MountUser = Null
       THEN UNCHANGED <<authUser, hbUser, profile, presenceVars>>
       ELSE IF visible
            THEN /\ localOnline' = CachedOnlineStatus(FALSE)
                 /\ sessionIdRec' = TRUE
                 /\ inflight' = inflight \cup {OnlineUpdate(MountUser, FALSE)}
                 /\ UNCHANGED <<authUser, hbUser, profile>>
            ELSE /\ localOnline' = IF session = Null THEN "absent"
                                   ELSE CachedOnlineStatus(TRUE)
                 /\ sessionIdRec' = TRUE
                 /\ inflight' = inflight \cup {OnlineUpdate(MountUser, TRUE)}
                 /\ authUser' = session
                 /\ hbUser' = IntervalAfter(hbUser, session)
                 /\ profile' = IF session = Null THEN Null ELSE profile
    /\ storage' = IF VisibilityFindsSessionLost THEN Invalidate(storage, "profile")
                  ELSE storage
    /\ hist' = IF VisibilityFindsSessionLost THEN Forget(hist, {"profile"}) ELSE hist
    /\ ret' = IF VisibilityFindsSessionLost
              THEN Ret("invalidate", "profile", Null, 0, storage, storage')
              ELSE ret
    /\ authAct' = "visibilityChange"
    /\ UNCHANGED <<session, loading, backendOnline, tornBy>>
    /\ UNCHANGED <<initVars, signInVars, signOutVars>>
    /\ UNCHANGED <<now, versions, nSets>>
    /\ UNCHANGED <<notifVars, loadVars, warmVars, dataVars>>

\* a tick of the 30 s presence interval: updateUserOnlineStatus(user.id, true)
\* records the user online and issues the profile update
Heartbeat ==
    /\ hbUser # Null
    /\ AssertOnline(hbUser)
    /\ authAct' = "heartbeat"
    /\ UNCHANGED <<authUser, session, profile, loading, visible, hbUser, backendOnline,
                   tornBy>>
    /\ UNCHANGED <<initVars, signInVars, signOutVars>>
    /\ UNCHANGED <<cacheVars, notifVars, loadVars, warmVars, dataVars>>

\* the backend answers a profile update nobody awaits the outcome of: it is
\* applied, or fails and is only logged
BackendAnswers ==
    /\ \E req \in inflight, ok \in BOOLEAN :
         /\ inflight' = inflight \ {req}
         /\ backendOnline' = IF ok THEN [backendOnline EXCEPT ![req.user] = req.online]
                                   ELSE backendOnline
    /\ authAct' = "backendAnswers"
    /\ UNCHANGED <<authUser, session, profile, loading, visible, hbUser, localOnline,
                   sessionIdRec, tornBy>>
    /\ UNCHANGED <<initVars, signInVars, signOutVars>>
    /\ UNCHANGED <<cacheVars, notifVars, loadVars, warmVars, dataVars>>

\* signIn(email, password) up to its first await: signInWithPassword is issued
SignInStart ==
    /\ siPc = "idle"
    /\ soPc = "idle"
    /\ session = Null
    /\ \E u \in AuthUsers : siUser' = u
    /\ siPc' = "awaitPassword"
    /\ loading' = TRUE
    /\ authAct' = "signIn"
    /\ UNCHANGED <<authUser, session, profile, visible, hbUser, backendOnline, tornBy>>
    /\ UNCHANGED <<presenceVars, initVars, signOutVars>>
    /\ UNCHANGED <<cacheVars, notifVars, loadVars, warmVars, dataVars>>

\* signInWithPassword answers: an error is returned to the caller; otherwise the
\* tab holds the session and signIn asks the backend whether the profile is active
SignInPasswordAnswered ==
    /\ siPc = "awaitPassword"
    /\ \E error \in BOOLEAN :
         IF error
         THEN /\ siPc' = "idle"
              /\ siUser' = Null
              /\ loading' = FALSE
              /\ UNCHANGED <<session, tornBy>>
         ELSE /\ siPc' = "awaitActive"
              /\ session' = siUser
              /\ tornBy' = "none"
              /\ UNCHANGED <<loading, siUser>>
    /\ authAct' = "signIn"
    /\ UNCHANGED <<authUser, profile, visible, hbUser, backendOnline>>
    /\ UNCHANGED <<presenceVars, initVars, signOutVars>>
    /\ UNCHANGED <<cacheVars, notifVars, loadVars, warmVars, dataVars>>

\* the profile check of signIn answers: on an error, or for a profile that is not
\* active, signIn signs the session out again; for an active profile it records the
\* user online and issues the profile update, which it awaits
SignInActiveAnswered ==
    /\ siPc = "awaitActive"
    /\ \E error \in BOOLEAN :
         IF error \/ siUser \notin ActiveUsers
         THEN /\ session' = Null
              /\ tornBy' = IF session # Null THEN "signIn" ELSE tornBy
              /\ siPc' = "idle"
              /\ siUser' = Null
              /\ loading' = FALSE
              /\ UNCHANGED <<presenceVars, backendOnline>>
         ELSE /\ localOnline' = CachedOnlineStatus(TRUE)
              /\ sessionIdRec' = TRUE
              /\ siPc' = "awaitOnline"
              /\ UNCHANGED <<session, tornBy, loading, inflight, backendOnline, siUser>>
    /\ authAct' = "signIn"
    /\ UNCHANGED <<authUser, profile, visible, hbUser>>
    /\ UNCHANGED <<initVars, signOutVars>>
    /\ UNCHANGED <<cacheVars, notifVars, loadVars, warmVars, dataVars>>

\* the awaited profile update of signIn is answered (applied, or failed and logged);
\* signIn starts the profile load and returns
SignInOnlineAnswered ==
    /\ siPc = "awaitOnline"
    /\ \E ok \in BOOLEAN :
         backendOnline' = IF ok THEN [backendOnline EXCEPT ![siUser] = TRUE]
                          ELSE backendOnline
    /\ siPc' = "idle"
    /\ siUser' = Null
    /\ loading' = FALSE
    /\ authAct' = "signIn"
    /\ UNCHANGED <<authUser, session, profile, visible, hbUser, tornBy>>
    /\ UNCHANGED <<presenceVars, initVars, signOutVars>>
    /\ UNCHANGED <<cacheVars, notifVars, loadVars, warmVars, dataVars>>

\* cacheManager.set(k, v) as a handler calls it
CacheWrite(k, v) ==
    /\ \E ok \in BOOLEAN :
         /\ storage' = IF ok THEN Put(storage, PKey(k), Stringify(MakeEntry(k, v, now)))
                             ELSE ClearExpired(storage, now)
         /\ hist' = IF ok THEN [hist EXCEPT ![k] = MakeEntry(k, v, now)] ELSE hist
    /\ ret' = Ret("set", k, v, 0, storage, storage')
    /\ UNCHANGED <<now, versions, nSets>>

\* loadProfileWithCache(userId) got the signed-in user's profile from the backend:
\* it caches it and sets the profile state
ProfileLoaded ==
    /\ authUser # Null
    /\ CacheWrite("profile", Value(authUser))
    /\ profile' = authUser
    /\ authAct' = "loadProfileWithCache"
    /\ UNCHANGED <<authUser, session, loading, visible, hbUser, backendOnline, tornBy>>
    /\ UNCHANGED <<presenceVars, initVars, signInVars, signOutVars>>
    /\ UNCHANGED <<notifVars, loadVars, warmVars, dataVars>>

\* the notification context of the signed-in user caches its counts
CountsCached ==
    /\ authUser # Null
    /\ CacheWrite("notification-counts", Value(authUser))
    /\ authAct' = "loadNotificationAndMessageCounts"
    /\ UNCHANGED <<authUser, session, profile, loading, visible, hbUser, backendOnline,
                   tornBy>>
    /\ UNCHANGED <<presenceVars, initVars, signInVars, signOutVars>>
    /\ UNCHANGED <<notifVars, loadVars, warmVars, dataVars>>

\* signOut() up to its first await: with a user, the record is set offline and the
\* profile update is issued
SignOutStart ==
    /\ soPc = "idle"
    /\ siPc = "idle"
    /\ session # Null
    /\ soUser' = authUser
    /\ teardownRec' = "none"
    /\ soError' = FALSE
    /\ IF authUser # Null
       THEN /\ localOnline' = CachedOnlineStatus(FALSE)
            /\ sessionIdRec' = TRUE
            /\ soLog' = <<"localOffline", "updateIssued">>
            /\ soPc' = "awaitOffline"
       ELSE /\ soLog' = <<>>
            /\ soPc' = "awaitSignOut"
            /\ UNCHANGED <<localOnline, sessionIdRec>>
    /\ authAct' = "signOut"
    /\ UNCHANGED <<authUser, session, profile, loading, visible, hbUser, backendOnline,
                   inflight, tornBy>>
    /\ UNCHANGED <<initVars, signInVars>>
    /\ UNCHANGED <<cacheVars, notifVars, loadVars, warmVars, dataVars>>

\* the awaited profile update of signOut() is answered (applied, or failed and
\* logged), and signOut() goes on to supabase.auth.signOut()
SignOutOfflineAnswered ==
    /\ soPc = "awaitOffline"
    /\ \E ok \in BOOLEAN :
         backendOnline' = IF ok THEN [backendOnline EXCEPT ![soUser] = FALSE]
                          ELSE backendOnline
    /\ soLog' = Append(soLog, "updateAwaited")
    /\ soPc' = "awaitSignOut"
    /\ authAct' = "signOut"
    /\ UNCHANGED <<authUser, session, profile, loading, visible, hbUser, tornBy>>
    /\ UNCHANGED <<presenceVars, initVars, signInVars, soUser, soError, teardownRec>>
    /\ UNCHANGED <<cacheVars, notifVars, loadVars, warmVars, dataVars>>

\* supabase.auth.signOut() answers: the session is torn down, or an error is
\* reported and logged
SignOutTeardown ==
    /\ soPc = "awaitSignOut"
    /\ \E error \in BOOLEAN :
         /\ session' = IF error THEN session ELSE Null
         /\ tornBy' = IF error \/ session = Null THEN tornBy ELSE "signOut"
         /\ soError' = error
    /\ teardownRec' = localOnline
    /\ soLog' = Append(soLog, "sessionTornDown")
    /\ soPc' = "cleanup"
    /\ authAct' = "signOut"
    /\ UNCHANGED <<authUser, profile, loading, visible, hbUser, backendOnline>>
    /\ UNCHANGED <<presenceVars, initVars, signInVars, soUser>>
    /\ UNCHANGED <<cacheVars, notifVars, loadVars, warmVars, dataVars>>

\* the rest of signOut(): the profile state is cleared, the profile entry and every
\* cache entry are removed, and so are the online-status and session-id records
SignOutCleanup ==
    /\ soPc = "cleanup"
    /\ profile' = Null
    /\ storage' = SignOutStore(storage)
    /\ hist' = Forget(hist, Keys)
    /\ ret' = Ret("clearAll", "", Null, 0, storage, storage')
    /\ localOnline' = "absent"
    /\ sessionIdRec' = FALSE
    /\ soLog' = Append(soLog, "cacheCleared")
    /\ soPc' = "idle"
    /\ authAct' = "signOutDone"
    /\ UNCHANGED <<now, versions, nSets>>
    /\ UNCHANGED <<authUser, session, loading, visible, hbUser, backendOnline, inflight,
                   tornBy>>
    /\ UNCHANGED <<initVars, signInVars, soUser, soError, teardownRec>>
    /\ UNCHANGED <<notifVars, loadVars, warmVars, dataVars>>

-----------------------------------------------------------------------------------------------------------------------------------------------------
(* loadProfileWithCache *)

maxRetries == 2

Min(a, b) == IF a < b THEN a ELSE b

\* a faulty variant of the delay, one step ahead
retryDelayAhead(retryCount) == Min(500 * 2 ^ (retryCount + 1), 2000)
\* Math.min(500 * Math.pow(2, retryCount), 2000)
retryDelay(retryCount) == Min(500 * 2 ^ retryCount, 2000)

\* the words isTransientError looks for in a message
TransientWords == {"timeout", "connection", "fetch", "network"}

\* an error message: its text, and the words of TransientWords that occur in it
Message(text, has) == [text |-> text, has |-> has]
NoMessage == Message("", {})

\* what the profiles query can answer: the row, no row, an error with one of the
\* three codes the function translates, or another error, which it rethrows as it is
Outcomes ==
    {"data", "empty", "PGRST116", "PGRST301", "42501", "fetchFailed", "statementTimeout",
     "jwtExpired"}

\* the error the inner try block throws for an answer without a row
ThrownMessage(outcome) ==
    CASE outcome = "PGRST116" -> Message("Profile not found - please contact support", {})
      [] outcome = "PGRST301" -> Message("Unable to connect to database", {})
      [] outcome = "42501"    -> Message("Insufficient permissions to load profile", {})
      [] outcome = "empty"    -> Message("No profile data received", {})
      [] outcome = "fetchFailed" -> Message("TypeError: Failed to fetch", {"fetch"})
      [] outcome = "statementTimeout" ->
             Message("canceling statement due to statement timeout", {"timeout"})
      [] OTHER -> Message("JWT expired", {})

\* error.message.includes('timeout') || ... || error.message.includes('network')
isTransientError(message) == message.has \cap TransientWords # {}

\* the id of a cached profile (the profile of user u is the object Value(u))
ProfileId(cached) == cached

\* the cache-first test: cachedProfile && cachedProfile.id === userId &&
\* cacheAge !== null && cacheAge < 10 * 60 * 1000
isCacheValid(cached, cacheAge, userId) ==
    /\ cached # Null
    /\ ProfileId(cached) = userId
    /\ cacheAge # NoAge
    /\ cacheAge < 10 * Minute

\* a faulty variant of the fallback test, which does not look at the id
fallbackAnyUser(cached, userId) == cached # Null
\* the fallback test: fallbackCache && fallbackCache.id === userId
fallbackUsable(cached, userId) == cached # Null /\ ProfileId(cached) = userId

LoadInit ==
    /\ lpPc = "idle"
    /\ lpUser = Null
    /\ lpRetry = 0
    /\ lpAttempts = 0
    /\ lpWaits = <<>>
    /\ lpThrown = NoMessage

\* the function body up to its await, in a call that has sent some queries already:
\* the cache-first check, which resolves the call from the cache, or else the
\* profiles query is sent
LoadAttempt(userId, sent) ==
    LET got == CacheGet(storage, now, "profile")
        cacheAge == GetAge(got.storage, now, "profile")
    IN  /\ storage' = got.storage
        /\ ret' = Ret("get", "profile", got.result, 0, storage, storage')
        /\ IF isCacheValid(got.result, cacheAge, userId)
           THEN /\ profile' = got.result
                /\ lpPc' = "resolved"
                /\ lpAttempts' = sent
           ELSE /\ lpPc' = "query"
                /\ lpAttempts' = sent + 1
                /\ UNCHANGED profile
        /\ UNCHANGED <<now, versions, nSets, hist>>

\* the authVars a profile load leaves alone
loadAuthRest ==
    <<authUser, session, loading, visible, hbUser, localOnline, sessionIdRec,
      backendOnline, inflight, initLookup, initRace, siPc, siUser, soPc, soUser, soLog,
      soError, teardownRec, tornBy, authAct>>

\* loadProfileWithCache(userId) is called
LoadCall ==
    /\ lpPc \in {"idle", "resolved", "rejected"}
    /\ \E userId \in AuthUsers :
         /\ lpUser' = userId
         /\ LoadAttempt(userId, 0)
    /\ lpRetry' = 0
    /\ lpWaits' = <<>>
    /\ lpThrown' = NoMessage
    /\ UNCHANGED <<loadAuthRest, notifVars, warmVars, dataVars>>

\* the profiles query is answered.  A row is cached and set as the profile.  An
\* error that is transient is retried after retryDelay while retries are left; any
\* other ends the call: with the cached profile if the fallback test accepts it,
\* else by rethrowing the error.
QueryAnswered ==
    /\ lpPc = "query"
    /\ \E outcome \in Outcomes :
         IF outcome = "data"
         THEN /\ CacheWrite("profile", Value(lpUser))
              /\ profile' = lpUser
              /\ lpPc' = "resolved"
              /\ lpThrown' = NoMessage
              /\ UNCHANGED lpWaits
         ELSE /\ lpThrown' = ThrownMessage(outcome)
              /\ IF lpRetry < maxRetries /\ isTransientError(ThrownMessage(outcome))
                 THEN /\ lpPc' = "wait"
                      /\ lpWaits' = Append(lpWaits, retryDelay(lpRetry))
                      /\ UNCHANGED <<cacheVars, profile>>
                 ELSE LET got == CacheGet(storage, now, "profile")
                      IN  /\ storage' = got.storage
                          /\ ret' = Ret("get", "profile", got.result, 0, storage, storage')
                          /\ IF fallbackUsable(got.result, lpUser)
                             THEN profile' = got.result /\ lpPc' = "resolved"
                             ELSE lpPc' = "rejected" /\ UNCHANGED profile
                          /\ UNCHANGED <<now, versions, nSets, hist, lpWaits>>
    /\ UNCHANGED <<lpUser, lpRetry, lpAttempts>>
    /\ UNCHANGED <<loadAuthRest, notifVars, warmVars, dataVars>>

\* the delay before a retry is over: loadProfileWithCache(userId, retryCount + 1)
RetryTimerFires ==
    /\ lpPc = "wait"
    /\ lpRetry' = lpRetry + 1
    /\ LoadAttempt(lpUser, lpAttempts)
    /\ UNCHANGED <<lpUser, lpWaits, lpThrown>>
    /\ UNCHANGED <<loadAuthRest, notifVars, warmVars, dataVars>>

-----------------------------------------------------------------------------
(* preWarm *)

\* the calls that may overlap, and the keys they warm
WarmCalls == {1, 2}
WarmKeys == {"profile", "dashboard"}

\* what the fetcher of a call resolves with
Fetched(call) == Value(call)

\* a faulty variant of the test below, which never finds an entry
NeverExisting(existing) == FALSE
\* if (existing)
Existing(existing) == existing # Null

WarmCall(pc, key, fetches, end) == [pc |-> pc, key |-> key, fetches |-> fetches, end |-> end]

WarmInit == warm = [call \in WarmCalls |-> WarmCall("idle", "", 0, "none")]

\* preWarm(key, fetcher) up to its await: get(key); with an entry it returns,
\* without one it invokes the fetcher
PreWarmCall ==
    /\ \E call \in WarmCalls, key \in WarmKeys :
         LET got == CacheGet(storage, now, key) IN
         /\ warm[call].pc # "fetching"
         /\ storage' = got.storage
         /\ ret' = Ret("get", key, got.result, 0, storage, storage')
         /\ warm' = [warm EXCEPT ![call] =
                        IF Existing(got.result)
                        THEN WarmCall("returned", key, 0, "skipped")
                        ELSE WarmCall("fetching", key, 1, "none")]
    /\ UNCHANGED <<now, versions, nSets, hist>>
    /\ UNCHANGED <<notifVars, authVars, loadVars, dataVars>>

\* the fetcher of a call settles: its result is handed to set(key, data), whose
\* write the store accepts or rejects; a rejection of the fetcher is caught and logged
FetcherSettles ==
    /\ \E call \in WarmCalls, resolved \in BOOLEAN, ok \in BOOLEAN :
         LET key == warm[call].key
             entry == MakeEntry(key, Fetched(call), now)
         IN
         /\ warm[call].pc = "fetching"
         /\ storage' = IF ~resolved THEN storage
                        ELSE IF ok THEN Put(storage, PKey(key), Stringify(entry))
                        ELSE ClearExpired(storage, now)
         /\ hist' = IF resolved /\ ok THEN [hist EXCEPT ![key] = entry] ELSE hist
         /\ ret' = IF resolved THEN Ret("set", key, Fetched(call), 0, storage, storage')
                    ELSE ret
         /\ warm' = [warm EXCEPT ![call] =
                        WarmCall("returned", key, 1,
                                 IF ~resolved THEN "fetcherRejected"
                                 ELSE IF ok THEN "stored" ELSE "writeRejected")]
    /\ UNCHANGED <<now, versions, nSets>>
    /\ UNCHANGED <<notifVars, authVars, loadVars, dataVars>>

-----------------------------------------------------------------------------
(* The notification context: loaders, cache-first reads and mutations *)

CACHE_KEYS ==
    [domainExpiry |-> "notification-domain-expiry",
     notificationCounts |-> "notification-counts",
     messageCounts |-> "message-counts",
     commentNotifications |-> "comment-notifications"]

\* the freshness windows of the loaders' cache checks, in ms
DomainWindow == 60000
CommentsWindow == 60000
NotificationsWindow == 30000
MessagesWindow == 5000

\* the instants the clock takes under the data specifications: around the windows
DataTimePoints == {0, 4000, 5000, 30000, 60000}

\* the user's comment notifications on the backend (all of type 'comment'), and
\* the ids markCommentAsRead is called with: 3 is in no list
CommentIds == {1, 2}
MarkIds == {1, 2, 3}
\* the counts the domains query can return
DomainCounts == {0, 1}
MessageCounts == {0, 1}

\* invocations of loadNotificationAndMessageCounts that can be in flight together
Calls == {1, 2}

\* how an awaited backend call ends: with a result, with { error }, or by rejecting
Answers == {"ok", "error", "throws"}

\* the object { count, timestamp } (or { notifications, unreadCount, timestamp })
\* a loader caches, as a stored value other than null; its timestamp is the
\* Date.now() that set() records in the entry as well
CountData(c) == Value(c + 1)
CountOf(d) == d - 1

\* cacheManager.get(key) as a loader sees it: the cached object, if any
NoCached == [found |-> FALSE, count |-> 0, timestamp |-> 0]
Cached(st, t, k) ==
    IF CacheGet(st, t, k).result = Null THEN NoCached
    ELSE [found |-> TRUE, count |-> CountOf(CacheGet(st, t, k).result),
          timestamp |-> Parse(st[PKey(k)]).timestamp]

\* the store after cacheManager.get of each key of ks
AfterGets(st, t, ks) ==
    [q \in {p \in DOMAIN st :
              \A k \in ks : p = PKey(k) => p \in DOMAIN CacheGet(st, t, k).storage}
       |-> st[q]]

\* cached && Date.now() - cached.timestamp < window
InWindow(cached, t, window) == cached.found /\ t - cached.timestamp < window

\* the store after cacheManager.set(key, { count, timestamp: Date.now() })
AfterSet(st, t, k, c) == Put(st, PKey(k), Stringify(MakeEntry(k, CountData(c), t)))

\* the keys markCommentAsRead and clearAllComments invalidate after their update
MutationKeys == {CACHE_KEYS.commentNotifications}

\* Math.max(0, prev - 1)
Decremented(prev) == IF prev - 1 > 0 THEN prev - 1 ELSE 0

IdleCall == [pc |-> "idle", cm |-> NoCached, refresh |-> FALSE]
NoMutation == [op |-> "idle", id |-> 0]
Last(op, slice, answer) == [op |-> op, slice |-> slice, answer |-> answer]

\* the provider without a user: every slice at its useState value, nothing in flight
DataInit ==
    /\ bUnread = {}
    /\ bMessages = 0
    /\ expiringDomainsCount = 0
    /\ unreadNotificationsCount = 0
    /\ unreadMessagesCount = 0
    /\ commentNotifications = {}
    /\ unreadCommentCount = 0
    /\ nLoading = FALSE
    /\ dPc = "idle"
    /\ cPc = "idle"
    /\ counts = [c \in Calls |-> IdleCall]
    /\ refreshing = {}
    /\ mPc = NoMutation
    /\ last = Last("init", "", "")

\* the provider right after its effects ran for user u over an empty cache: the
\* initial-load effect has called refreshAllData(), whose three loaders await their
\* first query, and the subscription effect has registered its handlers
DataStart(u) ==
    /\ nUser = u
    /\ isSaving = FALSE
    /\ saveEnded = FALSE
    /\ subs = <<[user |-> u, saving |-> FALSE]>>
    /\ clock = 0
    /\ timers = {}
    /\ reloads = {}
    /\ log = <<>>
    /\ bUnread \in SUBSET CommentIds
    /\ bMessages = 0
    /\ expiringDomainsCount = 0
    /\ unreadNotificationsCount = 0
    /\ unreadMessagesCount = 0
    /\ commentNotifications = {}
    /\ unreadCommentCount = 0
    /\ nLoading = TRUE
    /\ dPc = "query"
    /\ cPc = "query"
    /\ counts = [c \in Calls |->
                   IF c = 1 THEN [pc |-> "queryNotifications", cm |-> NoCached,
                                  refresh |-> TRUE]
                   ELSE IdleCall]
    /\ refreshing = Slices
    /\ mPc = NoMutation
    /\ last = Last("refreshAllData", "", "")

cacheRest == <<versions, nSets, hist, ret>>
dataFrame == <<cacheRest, notifVars, authVars, loadVars, warmVars>>
backendVars == <<bUnread, bMessages>>
domainVars == <<expiringDomainsCount, dPc>>
commentVars == <<commentNotifications, unreadCommentCount, cPc>>
countVars == <<unreadNotificationsCount, unreadMessagesCount, counts>>
refreshVars == <<refreshing, nLoading>>

\* the synchronous start of loadDomainExpiryData(): without a user the slice is
\* reset; a cached object inside the window is used; otherwise the query is sent
DomainStart ==
    LET cached == Cached(storage, now, CACHE_KEYS.domainExpiry) IN
    IF nUser = Null THEN expiringDomainsCount' = 0 /\ dPc' = "idle"
    ELSE IF InWindow(cached, now, DomainWindow)
         THEN expiringDomainsCount' = cached.count /\ dPc' = "idle"
    ELSE UNCHANGED expiringDomainsCount /\ dPc' = "query"

\* the synchronous start of loadCommentNotifications()
CommentsStart ==
    LET cached == Cached(storage, now, CACHE_KEYS.commentNotifications) IN
    IF nUser = Null
    THEN commentNotifications' = {} /\ unreadCommentCount' = 0 /\ cPc' = "idle"
    ELSE IF InWindow(cached, now, CommentsWindow)
         THEN /\ commentNotifications' = CommentIds
              /\ unreadCommentCount' = cached.count
              /\ cPc' = "idle"
    ELSE UNCHANGED <<commentNotifications, unreadCommentCount>> /\ cPc' = "query"

\* the second half of loadNotificationAndMessageCounts(): the cachedMessages read
\* at the start of the invocation is tested against the clock of now
MessagesCheck(call, cm, refresh) ==
    IF InWindow(cm, now, MessagesWindow)
    THEN /\ unreadMessagesCount' = cm.count
         /\ counts' = [counts EXCEPT ![call] = IdleCall]
    ELSE /\ UNCHANGED unreadMessagesCount
         /\ counts' = [counts EXCEPT ![call] =
                         [pc |-> "queryMessages", cm |-> NoCached, refresh |-> refresh]]

\* the synchronous start of loadNotificationAndMessageCounts(): both cache reads,
\* then the notifications half up to its await
CountsStart(call, refresh) ==
    LET cachedCounts == Cached(storage, now, CACHE_KEYS.notificationCounts)
        cachedMessages == Cached(storage, now, CACHE_KEYS.messageCounts) IN
    IF nUser = Null
    THEN /\ unreadNotificationsCount' = 0
         /\ unreadMessagesCount' = 0
         /\ counts' = [counts EXCEPT ![call] = IdleCall]
    ELSE IF InWindow(cachedCounts, now, NotificationsWindow)
         THEN /\ unreadNotificationsCount' = cachedCounts.count
              /\ MessagesCheck(call, cachedMessages, refresh)
    ELSE /\ UNCHANGED <<unreadNotificationsCount, unreadMessagesCount>>
         /\ counts' = [counts EXCEPT ![call] =
                         [pc |-> "queryNotifications", cm |-> cachedMessages,
                          refresh |-> refresh]]

\* a loader of refreshAllData() has not settled after the step
StillPending(slice) ==
    CASE slice = "domainExpiry" -> dPc' # "idle"
      [] slice = "comments" -> cPc' # "idle"
      [] slice = "counts" -> \E c \in Calls : counts'[c].refresh /\ counts'[c].pc # "idle"

\* Promise.all over the loaders in awaited, and the finally of refreshAllData()
RefreshSettles(awaited) ==
    /\ refreshing' = {slice \in awaited : StillPending(slice)}
    /\ nLoading' = IF awaited = {} THEN nLoading ELSE refreshing' # {}

NothingInFlight ==
    dPc = "idle" /\ cPc = "idle" /\ \A c \in Calls : counts[c].pc = "idle"

\* refreshAllData(): setLoading(true), the three loaders, setLoading(false)
RefreshAllData ==
    /\ NothingInFlight
    /\ DomainStart
    /\ CountsStart(1, TRUE)
    /\ CommentsStart
    /\ storage' = IF nUser = Null THEN storage
                  ELSE AfterGets(storage, now,
                                 {CACHE_KEYS.domainExpiry, CACHE_KEYS.notificationCounts,
                                  CACHE_KEYS.messageCounts, CACHE_KEYS.commentNotifications})
    /\ RefreshSettles(Slices)
    /\ last' = Last("refreshAllData", "", "")
    /\ UNCHANGED <<now, backendVars, mPc>>
    /\ UNCHANGED dataFrame

\* the change feed delivers a change of the user's notifications: the handler of
\* 'notification-context-notifications' calls loadNotificationAndMessageCounts()
NotificationsEvent ==
    /\ nUser # Null /\ Len(subs) > 0
    /\ \E c \in Calls, unread \in SUBSET CommentIds :
         /\ counts[c].pc = "idle"
         /\ \A b \in Calls : counts[b].pc = "idle" => c <= b
         /\ unread # bUnread
         /\ bUnread' = unread
         /\ CountsStart(c, FALSE)
    /\ storage' = AfterGets(storage, now,
                            {CACHE_KEYS.notificationCounts, CACHE_KEYS.messageCounts})
    /\ last' = Last("notificationsEvent", "counts", "")
    /\ UNCHANGED <<now, bMessages, domainVars, commentVars, refreshVars, mPc>>
    /\ UNCHANGED dataFrame

\* the change feed delivers a change of the user's messages: the handler of
\* 'notification-context-messages' calls loadNotificationAndMessageCounts()
MessagesEvent ==
    /\ nUser # Null /\ Len(subs) > 0
    /\ \E c \in Calls, messages \in MessageCounts :
         /\ counts[c].pc = "idle"
         /\ \A b \in Calls : counts[b].pc = "idle" => c <= b
         /\ messages # bMessages
         /\ bMessages' = messages
         /\ CountsStart(c, FALSE)
    /\ storage' = AfterGets(storage, now,
                            {CACHE_KEYS.notificationCounts, CACHE_KEYS.messageCounts})
    /\ last' = Last("messagesEvent", "counts", "")
    /\ UNCHANGED <<now, bUnread, domainVars, commentVars, refreshVars, mPc>>
    /\ UNCHANGED dataFrame

\* refreshDomainExpiryData(), or the debounced callback of the domains handler
DomainLoad ==
    /\ dPc = "idle"
    /\ DomainStart
    /\ storage' = IF nUser = Null THEN storage
                  ELSE AfterGets(storage, now, {CACHE_KEYS.domainExpiry})
    /\ last' = Last("loadDomainExpiryData", "domainExpiry", "")
    /\ UNCHANGED <<now, backendVars, commentVars, countVars, refreshVars, mPc>>
    /\ UNCHANGED dataFrame

\* refreshCommentNotifications(), or the debounced callback of the comments handler
CommentsLoad ==
    /\ cPc = "idle"
    /\ CommentsStart
    /\ storage' = IF nUser = Null THEN storage
                  ELSE AfterGets(storage, now, {CACHE_KEYS.commentNotifications})
    /\ last' = Last("loadCommentNotifications", "comments", "")
    /\ UNCHANGED <<now, backendVars, domainVars, countVars, refreshVars, mPc>>
    /\ UNCHANGED dataFrame

\* the domains query of loadDomainExpiryData settles
DomainAnswered ==
    /\ dPc = "query"
    /\ \E answer \in Answers, count \in DomainCounts :
         /\ answer # "ok" => count = 0
         /\ expiringDomainsCount' = count
         /\ storage' = IF answer = "ok"
                       THEN AfterSet(storage, now, CACHE_KEYS.domainExpiry, count)
                       ELSE storage
         /\ last' = Last("domainAnswered", "domainExpiry", answer)
    /\ dPc' = "idle"
    /\ UNCHANGED <<now, backendVars, commentVars, countVars, mPc>>
    /\ UNCHANGED dataFrame
    /\ RefreshSettles(refreshing)

\* the notifications query of loadCommentNotifications settles
CommentsAnswered ==
    /\ cPc = "query"
    /\ \E answer \in Answers :
         /\ commentNotifications' = IF answer = "ok" THEN CommentIds ELSE {}
         /\ unreadCommentCount' = IF answer = "ok" THEN Cardinality(bUnread) ELSE 0
         /\ storage' = IF answer = "ok"
                       THEN AfterSet(storage, now, CACHE_KEYS.commentNotifications,
                                     Cardinality(bUnread))
                       ELSE storage
         /\ last' = Last("commentsAnswered", "comments", answer)
    /\ cPc' = "idle"
    /\ UNCHANGED <<now, backendVars, domainVars, countVars, mPc>>
    /\ UNCHANGED dataFrame
    /\ RefreshSettles(refreshing)

\* the count query on notifications settles; its error is not looked at, and
\* notificationCount || 0 is cached and shown; a rejection resets both counts
NotificationsAnswered ==
    /\ \E c \in Calls, answer \in Answers :
         /\ counts[c].pc = "queryNotifications"
         /\ IF answer = "throws"
            THEN /\ unreadNotificationsCount' = 0
                 /\ unreadMessagesCount' = 0
                 /\ counts' = [counts EXCEPT ![c] = IdleCall]
                 /\ storage' = storage
            ELSE LET notificationCount ==
                         IF answer = "ok" THEN Cardinality(bUnread) ELSE 0 IN
                 /\ storage' = AfterSet(storage, now, CACHE_KEYS.notificationCounts,
                                        notificationCount)
                 /\ unreadNotificationsCount' = notificationCount
                 /\ MessagesCheck(c, counts[c].cm, counts[c].refresh)
         /\ last' = Last("notificationsAnswered", "notifications", answer)
    /\ UNCHANGED <<dPc, cPc>>
    /\ UNCHANGED <<now, backendVars, expiringDomainsCount, commentNotifications,
                   unreadCommentCount, mPc>>
    /\ UNCHANGED dataFrame
    /\ RefreshSettles(refreshing)

\* the count query on messages settles
MessagesAnswered ==
    /\ \E c \in Calls, answer \in Answers :
         /\ counts[c].pc = "queryMessages"
         /\ IF answer = "throws"
            THEN /\ unreadNotificationsCount' = 0
                 /\ unreadMessagesCount' = 0
                 /\ storage' = storage
            ELSE LET messageCount == IF answer = "ok" THEN bMessages ELSE 0 IN
                 /\ storage' = AfterSet(storage, now, CACHE_KEYS.messageCounts,
                                        messageCount)
                 /\ unreadMessagesCount' = messageCount
                 /\ UNCHANGED unreadNotificationsCount
         /\ counts' = [counts EXCEPT ![c] = IdleCall]
         /\ last' = Last("messagesAnswered", "messages", answer)
    /\ UNCHANGED <<dPc, cPc>>
    /\ UNCHANGED <<now, backendVars, expiringDomainsCount, commentNotifications,
                   unreadCommentCount, mPc>>
    /\ UNCHANGED dataFrame
    /\ RefreshSettles(refreshing)

\* markCommentAsRead(commentId) sends its update
MarkCommentAsRead ==
    /\ nUser # Null
    /\ mPc = NoMutation
    /\ \E commentId \in MarkIds : mPc' = [op |-> "markCommentAsRead", id |-> commentId]
    /\ last' = Last("markCommentAsRead", "comments", "")
    /\ UNCHANGED <<storage, now, backendVars, domainVars, commentVars, countVars,
                   refreshVars>>
    /\ UNCHANGED dataFrame

\* clearAllComments() sends its update
ClearAllComments ==
    /\ nUser # Null
    /\ mPc = NoMutation
    /\ mPc' = [op |-> "clearAllComments", id |-> 0]
    /\ last' = Last("clearAllComments", "comments", "")
    /\ UNCHANGED <<storage, now, backendVars, domainVars, commentVars, countVars,
                   refreshVars>>
    /\ UNCHANGED dataFrame

\* the update of markCommentAsRead or clearAllComments settles: on success the rows
\* are read on the backend, the counter is decremented (or zeroed) and the key of
\* the comment notifications is invalidated; on failure the catch only logs
UpdateAnswered ==
    /\ mPc # NoMutation
    /\ \E answer \in Answers :
         /\ IF answer = "ok"
            THEN /\ bUnread' = IF mPc.op = "markCommentAsRead" THEN bUnread \ {mPc.id}
                               ELSE {}
                 /\ unreadCommentCount' = IF mPc.op = "markCommentAsRead"
                                          THEN Decremented(unreadCommentCount)
                                          ELSE 0
                 /\ storage' = InvalidateAll(storage, MutationKeys)
            ELSE UNCHANGED <<bUnread, unreadCommentCount, storage>>
         /\ last' = Last(mPc.op, "answered", answer)
    /\ mPc' = NoMutation
    /\ UNCHANGED <<now, bMessages, domainVars, commentNotifications, cPc, countVars,
                   refreshVars>>
    /\ UNCHANGED dataFrame

\* time passes
DataTick ==
    /\ \E t \in DataTimePoints : t > now /\ now' = t
    /\ last' = Last("tick", "", "")
    /\ UNCHANGED <<storage, backendVars, domainVars, commentVars, countVars,
                   refreshVars, mPc>>
    /\ UNCHANGED dataFrame

-----
(* Specifications *)

vars == <<cacheVars, notifVars, authVars, loadVars, warmVars, dataVars>>

Init == CacheInit /\ NotifInit /\ AuthInit /\ LoadInit /\ WarmInit /\ DataInit

\* the cache manager under its readers and writers
Next ==
    \/ Tick
    \/ Deploy
    \/ Set
    \/ Get
    \/ InvalidateCall
    \/ InvalidateOnDataChange
    \/ ClearAll

Spec == Init /\ [][Next]_vars

\* the cache manager under set, invalidate and the refresh policy
NextRefresh ==
    \/ TickRefresh
    \/ Set
    \/ ShouldRefreshCall
    \/ InvalidateCall

SpecRefresh == Init /\ [][NextRefresh]_vars

\* the cache manager reading a store that also holds content it did not write
NextCorrupt ==
    \/ Tick
    \/ Set
    \/ Get
    \/ ForeignWrite

SpecCorrupt == Init /\ [][NextCorrupt]_vars

\* bulk maintenance over a store that also holds the theme and foreign content
NextMaintenance ==
    \/ Tick
    \/ Set
    \/ ForeignWrite
    \/ SetTheme
    \/ ClearAll
    \/ ClearExpiredCall

SpecMaintenance == Init /\ [][NextMaintenance]_vars

\* overlapping preWarm calls, while time passes
NextWarm ==
    \/ Tick
    \/ PreWarmCall
    \/ FetcherSettles

SpecWarm == Init /\ [][NextWarm]_vars

\* the notification context under saves, user changes, change events and time
NextNotif ==
    \/ MarkSaveStart
    \/ MarkSaveEnd
    \/ UserChange
    \/ ChangeEvent
    \/ TimerFires
    \/ ClockTick

SpecNotif == Init /\ [][NextNotif]_vars

\* the auth context under the session lookup, sign-in, auth events, visibility
\* changes, the heartbeat and sign-out, in a tab that starts with or without a session
InitAuth == CacheInit /\ NotifInit /\ LoadInit /\ WarmInit /\ DataInit /\ \E s \in AuthUsers \cup {Null} : AuthStart(s)

NextAuth ==
    \/ LookupAnswered
    \/ InitTimeout
    \/ SessionLost
    \/ OnAuthStateChange
    \/ VisibilityChange
    \/ Heartbeat
    \/ BackendAnswers
    \/ SignInStart
    \/ SignInPasswordAnswered
    \/ SignInActiveAnswered
    \/ SignInOnlineAnswered
    \/ SignOutStart
    \/ SignOutOfflineAnswered
    \/ SignOutTeardown
    \/ SignOutCleanup

SpecAuth == InitAuth /\ [][NextAuth]_vars

\* sign-out in a tab that was opened with a session and has cached the profile and
\* the notification counts
InitSignOut == CacheInit /\ NotifInit /\ LoadInit /\ WarmInit /\ DataInit /\ \E s \in AuthUsers : AuthStart(s)

NextSignOut ==
    \/ LookupAnswered
    \/ OnAuthStateChange
    \/ Heartbeat
    \/ BackendAnswers
    \/ ProfileLoaded
    \/ CountsCached
    \/ SignOutStart
    \/ SignOutOfflineAnswered
    \/ SignOutTeardown
    \/ SignOutCleanup

SpecSignOut == InitSignOut /\ [][NextSignOut]_vars

\* one tab loading profiles, while time passes.  A query that was sent is answered,
\* and a retry timer that was started fires.
NextProfile ==
    \/ Tick
    \/ LoadCall
    \/ QueryAnswered
    \/ RetryTimerFires

SpecProfile ==
    Init /\ [][NextProfile]_vars /\ WF_vars(QueryAnswered) /\ WF_vars(RetryTimerFires)

\* the notification context's data layer over the cache, with a user signed in
InitData == CacheInit /\ AuthInit /\ LoadInit /\ WarmInit /\ DataStart(1)

\* refreshAllData() and the loaders' queries, answered or failing
NextLoaders ==
    \/ DataTick
    \/ RefreshAllData
    \/ DomainLoad
    \/ DomainAnswered
    \/ CommentsAnswered
    \/ NotificationsAnswered
    \/ MessagesAnswered

SpecLoaders == InitData /\ [][NextLoaders]_vars

\* the unread counts under change events, with overlapping invocations of the loader
NextCounts ==
    \/ DataTick
    \/ NotificationsEvent
    \/ MessagesEvent
    \/ NotificationsAnswered
    \/ MessagesAnswered

SpecCounts == InitData /\ [][NextCounts]_vars

\* the comment notifications under markCommentAsRead and clearAllComments
NextComments ==
    \/ DataTick
    \/ CommentsLoad
    \/ CommentsAnswered
    \/ NotificationsAnswered
    \/ MessagesAnswered
    \/ MarkCommentAsRead
    \/ ClearAllComments
    \/ UpdateAnswered

SpecComments == InitData /\ [][NextComments]_vars

-----------------------------------------------------------------------------
(* Properties of the cache manager *)

Entry(st, k) == Parse(st[PKey(k)])
IsGet(r, k) == r.op = "get" /\ r.key = k

\* C1 (as amended): after a set(k, v) whose write succeeded, every get(k) made while
\* now < expiresAt(k), with the version in force for k unchanged and with no set,
\* invalidate or clear of k in between, returns v: the value of the most recent
\* successful set(k, .).
C1_RoundTrip ==
    \A k \in Keys :
        (/\ hist[k] # NoEntry
         /\ now < hist[k].expiresAt
         /\ ConfigOrDefault(k).version = hist[k].version)
        => /\ CacheGet(storage, now, k).result = hist[k].data
           /\ (IsGet(ret, k) => ret.val = hist[k].data)

\* C1 witness: a get, made after time has passed, returned the value of the second
\* successful set
C1_Witness ==
    /\ ret.op = "get"
    /\ ret.val = Value(2)
    /\ hist[ret.key].data = Value(2)
    /\ now > hist[ret.key].timestamp
    /\ now < hist[ret.key].expiresAt

\* C1 as stated: right after any set(k, v) call, get(k) returns v
C1_Original ==
    [][ret'.op = "set" => CacheGet(storage', now', ret'.key).result = ret'.val]_vars

C3_VersionInvalidation ==
    [][\A k \in Keys \cap ConfiguredKeys :
         (/\ IsGet(ret', k)
          /\ HasItem(storage, k)
          /\ Entry(storage, k).version # versions[k])
            => ret'.val = Null /\ ~HasItem(storage', k)]_vars

\* C3 witness: 'profile' was stored under version 1.1, version 1.2 is configured,
\* and a get of the unexpired entry returned null and removed it
C3_Witness ==
    /\ IsGet(ret, "profile")
    /\ hist["profile"].version = "1.1"
    /\ versions["profile"] = "1.2"
    /\ now < hist["profile"].expiresAt
    /\ ret.val = Null
    /\ ret.removed = 1
    /\ ~HasItem(storage, "profile")

\* C3 as stated: for every key, configured or not, a stored entry whose version
\* differs from the version in force (the default one for an unconfigured key) is
\* answered with null and removed
C3_Original ==
    [][\A k \in Keys :
         (/\ IsGet(ret', k)
          /\ HasItem(storage, k)
          /\ Entry(storage, k).version # ConfigOrDefault(k).version)
            => ret'.val = Null /\ ~HasItem(storage', k)]_vars

\* C4: shouldRefresh(k) returns true if and only if no entry is stored for k or the
\* stored entry's age, now - timestamp, is strictly greater than half the duration
\* configured for k (the default duration for an unconfigured key).
C4_ShouldRefresh ==
    \A k \in Keys :
        (ret.op = "shouldRefresh" /\ ret.key = k) =>
            (ret.val = Bool(TRUE)
               <=> \/ ~HasItem(storage, k)
                   \/ 2 * (now - Entry(storage, k).timestamp)
                        > (IF k \in ConfiguredKeys THEN ConfigDuration(k)
                                                   ELSE DefaultDuration))

\* C4 witness: shouldRefresh answered false for an entry aged exactly half its
\* duration
C4_Witness ==
    /\ ret.op = "shouldRefresh"
    /\ ret.val = Bool(FALSE)
    /\ HasItem(storage, ret.key)
    /\ 2 * (now - Entry(storage, ret.key).timestamp) = ConfigOrDefault(ret.key).duration

\* C5: invalidate(k) on a key without a stored entry leaves the whole store
\* unchanged, a second invalidate(k) changes nothing, get(k) afterwards returns
\* null, and the entries of every other key are unchanged.
C5_InvalidateIdempotent ==
    [][\A k \in Keys :
         (ret'.op = "invalidate" /\ ret'.key = k) =>
            /\ ~HasItem(storage, k) => storage' = storage
            /\ ~HasItem(storage', k)
            /\ Invalidate(storage', k) = storage'
            /\ CacheGet(storage', now', k).result = Null
            /\ DOMAIN storage' = DOMAIN storage \ {PKey(k)}
            /\ \A q \in DOMAIN storage' : storage'[q] = storage[q]]_vars

\* C5 witness: an invalidate of a key without an entry has run, and the entry of
\* another key is still stored
C5_Witness ==
    /\ ret.op = "invalidate"
    /\ ret.removed = 0
    /\ \E k \in Keys \ {ret.key} : HasItem(storage, k) /\ Entry(storage, k) = hist[k]

\* C6: one call invalidateOnDataChange('domains', op), whatever op is, leaves no
\* entry under the domain-expiry, projects, dashboard and notification-count keys
\* and dispatches exactly one 'domainDataChanged' event.
C6_DomainInvalidation ==
    (ret.op = "invalidateOnDataChange" /\ ret.key = "domains") =>
        /\ \A k \in {"domainExpiry", "notification-domain-expiry", "projects",
                     "dashboard", "notification-counts"} : ~HasItem(storage, k)
        /\ ret.events = 1

\* C6 witness: the call removed two entries, dispatched its event and left the
\* store without cache entries
C6_Witness ==
    /\ ret.op = "invalidateOnDataChange"
    /\ ret.key = "domains"
    /\ ret.removed = 2
    /\ ret.events = 1
    /\ DOMAIN storage = {}

-----------------------------------------------------------------------------
(* Properties of the notification context *)

\* the loader invocations of a slice that the events of a table have caused
CausedReloads(table, slice) ==
    {r \in reloads : /\ r.slice = slice
                     /\ r.cause \in {i \in 1..Len(log) : log[i].table = table}}

\* three events of the table, none during a save, the last at most 1 s after the first
Burst(table) ==
    /\ Len(log) = 3
    /\ \A i \in 1..3 : log[i].table = table /\ ~log[i].saving
    /\ log[3].at - log[1].at <= DebounceMs

\* C7 as stated: three change events of one subscribed table, delivered within one
\* second while no save is in progress, trigger at most one reload of each slice of
\* that table: the burst is coalesced.
C7_DebouncedReload ==
    \A table \in SubscribedTables : \A slice \in SlicesOf(table) :
        Burst(table) => Cardinality(CausedReloads(table, slice)) <= 1

\* C8 as stated: a change event of a subscribed table delivered while isSaving is
\* true triggers no reload of any slice, neither at once nor after the debounce
\* delay.
C8_SaveSuppression ==
    /\ \A r \in reloads : r.cause # 0 => ~log[r.cause].saving
    /\ \A tm \in timers : ~log[tm.cause].saving

\* C9 as stated: every change event of a subscribed table delivered after a save has
\* ended, while no save is in progress, triggers the reload of its slice: its loader
\* has been called, or the debounce timer that will call it is pending.
C9_Resumption ==
    \A i \in 1..Len(log) :
        (log[i].afterSave /\ ~log[i].saving) =>
            \/ \E r \in reloads : r.cause = i /\ r.slice \in SlicesOf(log[i].table)
            \/ \E tm \in timers : tm.cause = i /\ tm.slice \in SlicesOf(log[i].table)

-----------------------------------------------------------------------------
(* Properties of the sign-out path *)

IsPrefix(s, t) == Len(s) <= Len(t) /\ \A i \in 1..Len(s) : s[i] = t[i]

\* C10 as stated: a signOut() of a signed-in user sets the online-status record
\* offline, issues and awaits the profile update, only then tears the session down
\* and only then clears the cache; and when it tears the session down the
\* online-status record of the tab does not say online.
C10_SignOutOrdering ==
    soUser # Null =>
        /\ IsPrefix(soLog, SignOutSteps)
        /\ teardownRec \in {"none", CachedOnlineStatus(FALSE)}

(***************************************************************************)
(* Claims about the auth context                                           *)
(***************************************************************************)

\* C11 as stated: the user of a tab becomes null, after having been set, only as
\* the result of an explicit signOut() call, that is, only when signOut() tore the
\* session down; never on a visibility change, a session check or a failure of the
\* backend.
C11_ExplicitSignOutOnly ==
    [][(authUser # Null /\ authUser' = Null) => tornBy = "signOut"]_vars

\* C12 as stated: the tab holds a user, and records or issues online = true, only for
\* a user whose profile is active: for an account that is not active, neither the
\* initial lookup, nor an auth event, nor signIn sets the user or asserts online.
C12_ActiveOnly ==
    /\ authUser # Null => authUser \in ActiveUsers
    /\ \A u \in AuthUsers \ ActiveUsers :
         /\ OnlineUpdate(u, TRUE) \notin inflight
         /\ ~backendOnline[u]

\* the initial lookup answers after the 3 s timer has already settled the race
AbandonedLookupAnswers ==
    initRace = "timeout" /\ initLookup = "pending" /\ initLookup' = "answered"

\* C13 as stated: when the initial lookup returns an error the user is null and
\* loading is false; when the 3 s timer wins the race loading is false and the
\* lookup is not issued again; and a lookup that answers after it was abandoned
\* does not sign the tab in (it sets no user and asserts no online status).
C13_InitFallback ==
    [][/\ (initRace = "racing" /\ initRace' = "error") =>
              authUser' = Null /\ loading' = FALSE
       /\ (initRace = "racing" /\ initRace' = "timeout") =>
              loading' = FALSE /\ initLookup' = initLookup
       /\ initLookup = "answered" => initLookup' = "answered"
       /\ AbandonedLookupAnswers =>
              /\ authUser = Null => authUser' = Null
              /\ UNCHANGED <<localOnline, inflight>>]_vars

(***************************************************************************)
(* Claims about the profile load                                           *)
(***************************************************************************)

NonTransientFailure ==
    lpPc = "query" /\ lpPc' # "query" /\ lpThrown' # NoMessage /\ ~isTransientError(lpThrown')

\* C15: an error that is not transient (not found, permission denied, ...) is never
\* retried: the call ends in that step, with the cached profile as the profile if and
\* only if the cache holds a valid profile entry whose id is the requested user id,
\* and otherwise with the error and the profile state unchanged; and no step of a
\* load installs a profile of another user than the one requested.
C15_NonTransientFallback ==
    [][/\ NonTransientFailure =>
            LET cached == CacheGet(storage, now, "profile").result
            IN  /\ lpAttempts' = lpAttempts /\ lpRetry' = lpRetry /\ lpWaits' = lpWaits
                /\ IF cached # Null /\ cached = Value(lpUser)
                   THEN lpPc' = "resolved" /\ profile' = cached
                   ELSE lpPc' = "rejected" /\ profile' = profile
       /\ profile' # profile => profile' = Value(lpUser')]_vars

\* a not-found error on the first query, answered from a cached profile of the
\* requested user that was too old for the cache-first check
C15_Witness ==
    /\ lpPc = "resolved"
    /\ lpAttempts = 1
    /\ lpThrown = ThrownMessage("PGRST116")
    /\ profile = lpUser

C17_VisibilityPresence ==
    [][/\ (visible /\ ~visible' /\ authUser # Null) =>
              /\ localOnline' = CachedOnlineStatus(FALSE)
              /\ OnlineUpdate(authUser, FALSE) \in inflight'
       /\ (~visible /\ visible' /\ authUser # Null) =>
              /\ localOnline' = CachedOnlineStatus(TRUE)
              /\ OnlineUpdate(authUser, TRUE) \in inflight']_vars

\* C18: when signOut() has completed, the store holds no key with the cache prefix
\* (so no 'profile' entry), no online-status record and no session-id record, and
\* the profile state is null, whether supabase.auth.signOut() reported an error or not.
C18_SignOutClears ==
    authAct = "signOutDone" =>
        /\ \A p \in DOMAIN storage : p[1] # prefix
        /\ localOnline = "absent"
        /\ ~sessionIdRec
        /\ profile = Null

\* a signOut() that removed the cached profile and counts although the backend
\* sign-out reported an error
C18_Witness ==
    /\ authAct = "signOutDone"
    /\ soError
    /\ soUser # Null
    /\ ret.op = "clearAll"
    /\ ret.removed = 2

(***************************************************************************)
(* Claims about the cache manager and a faulty store                       *)
(***************************************************************************)

\* C19 as stated: whatever the store holds under a key (nothing, an entry, a text
\* that is not JSON, JSON that is not an entry object), get(k) returns null or the
\* data of a valid entry, which is then the entry stored under k; and when it has
\* returned null nothing is left under k, so a malformed item was removed.
C19_GetTolerant ==
    ret.op = "get" =>
        IF ret.val = Null
        THEN ~HasItem(storage, ret.key)
        ELSE /\ HasItem(storage, ret.key)
             /\ IsEntryText(storage[PKey(ret.key)])
             /\ ret.val = Parse(storage[PKey(ret.key)]).data

\* a set(k, v) whose write the store rejected
SetFailed == ret'.op = "set" /\ nSets' = nSets

\* C20: a set(k, v) whose write is rejected returns normally, having run
\* clearExpired() and nothing else: the store is what clearExpired() leaves, an
\* unexpired entry that was under k is still there unchanged, and a get(k) right
\* after returns what it would have returned before, or null, and never v.
C20_SetFailure ==
    [][SetFailed =>
         LET k == ret'.key
             v == ret'.val
             before == CacheGet(storage, now, k).result
             after == CacheGet(storage', now', k).result
         IN  /\ storage' = ClearExpired(storage, now)
             /\ (/\ HasItem(storage, k)
                 /\ ~ParseThrows(storage[PKey(k)])
                 /\ ~IsExpired(Parse(storage[PKey(k)]), now))
                   => HasItem(storage', k) /\ storage'[PKey(k)] = storage[PKey(k)]
             /\ after \in {Null, before}
             /\ after # v]_vars

\* a rejected set(k, v) at a later time than the first write, with the entry written
\* then still under k
C20_Witness ==
    /\ ret.op = "set"
    /\ now > 0
    /\ nSets = 1
    /\ HasItem(storage, ret.key)
    /\ Parse(storage[PKey(ret.key)]) = hist[ret.key]
    /\ hist[ret.key].data # ret.val
    /\ CacheGet(storage, now, ret.key).result = hist[ret.key].data

\* the items a reader cannot read as an entry
Unreadable(item) == ParseThrows(item)

\* the keys with the cache prefix, and those among them that are expired or unreadable
PrefixedKeys(st) == {p \in DOMAIN st : p[1] = prefix}
StaleKeys(st, t) ==
    {p \in PrefixedKeys(st) : Unreadable(st[p]) \/ IsExpired(Parse(st[p]), t)}

\* C21 as stated: clearAll() removes every key with the cache prefix, clearExpired()
\* removes exactly the prefixed items that are expired or cannot be parsed, and both
\* leave every other key with its item: the keys without the prefix, and for
\* clearExpired() the unexpired well-formed entries.
C21_MaintenanceFrame ==
    [][/\ ret'.op = "clearAll" =>
              /\ DOMAIN storage' = DOMAIN storage \ PrefixedKeys(storage)
              /\ \A p \in DOMAIN storage' : storage'[p] = storage[p]
       /\ ret'.op = "clearExpired" =>
              /\ DOMAIN storage' = DOMAIN storage \ StaleKeys(storage, now)
              /\ \A p \in DOMAIN storage' : storage'[p] = storage[p]]_vars

(***************************************************************************)
(* Claims about preWarm                                                    *)
(***************************************************************************)

\* the step in which a call of preWarm starts, and the one in which its fetcher settles
WarmStarts(call) == warm[call].pc # "fetching" /\ warm'[call] # warm[call]
WarmSettles(call) == warm[call].pc = "fetching" /\ warm'[call].pc = "returned"

C27_SubscriptionLifecycle ==
    /\ [](/\ Len(subs) <= 1
          /\ \A j \in 1..Len(subs) : subs[j].user = nUser)
    /\ [][/\ \A r \in reloads' \ reloads : r.sub # 0 => subs[r.sub].user = nUser
          /\ \A tm \in timers' \ timers : subs[tm.sub].user = nUser]_vars

(***************************************************************************)
(* Claims about sign-out and presence                                      *)
(***************************************************************************)

\* signOut() has recorded and issued online = false for its user
SignOutIssuedOffline == soUser # Null /\ soLog # <<>>

\* C26 as stated: once signOut() has issued online = false for a user, no tick of
\* the heartbeat, no visibility change and no auth-state-change event of the tab
\* sets the online-status record back to online or issues online = true for that
\* user (no sign-in follows in these behaviours).
C26_SignOutNotOvertaken ==
    [][(SignOutIssuedOffline /\ (Heartbeat \/ VisibilityChange \/ OnAuthStateChange)) =>
           /\ localOnline' = CachedOnlineStatus(TRUE) => localOnline = CachedOnlineStatus(TRUE)
           /\ OnlineUpdate(soUser, TRUE) \notin inflight' \ inflight]_vars

(***************************************************************************)
(* Claims about the cache queries                                          *)
(***************************************************************************)

\* C29 as stated: isFresh(k), with its default threshold of 5 minutes, implies
\* has(k), where has(k) is true exactly when get(k) returns a value other than
\* null.
C29_FreshImpliesHas ==
    \A k \in Keys :
        /\ Has(storage, now, k) <=> CacheGet(storage, now, k).result # Null
        /\ IsFresh(storage, now, k) => Has(storage, now, k)

(***************************************************************************)
(* Claims about the notification context's loaders                         *)
(***************************************************************************)

\* the item under key k is the same before and after the step
KeyUntouched(k) ==
    /\ HasItem(storage', k) <=> HasItem(storage, k)
    /\ HasItem(storage, k) => storage'[PKey(k)] = storage[PKey(k)]

\* the backend call of a loader has just failed, with { error } or by rejecting
LoaderFailed(slice) ==
    last'.slice = slice /\ last'.answer \in {"error", "throws"}

\* C23 as stated: when the backend call of a loader fails, the slice the loader
\* owns is reset to zero or empty and nothing is written to the cache under the
\* key of that slice; and once refreshAllData() has settled, loading is false.
C23_LoaderFailure ==
    /\ [](refreshing = {} => ~nLoading)
    /\ [][/\ LoaderFailed("domainExpiry") =>
                (expiringDomainsCount' = 0 /\ KeyUntouched(CACHE_KEYS.domainExpiry))
          /\ LoaderFailed("comments") =>
                (/\ commentNotifications' = {} /\ unreadCommentCount' = 0
                 /\ KeyUntouched(CACHE_KEYS.commentNotifications))
          /\ LoaderFailed("notifications") =>
                (/\ unreadNotificationsCount' = 0
                 /\ KeyUntouched(CACHE_KEYS.notificationCounts))
          /\ LoaderFailed("messages") =>
                (/\ unreadMessagesCount' = 0
                 /\ KeyUntouched(CACHE_KEYS.messageCounts))]_vars

\* the cache manager holds a valid entry for key k inside the window of its slice
FreshlyCached(k, window) == InWindow(Cached(storage, now, k), now, window)

\* a loader was called in the step
LoaderCalled(ops) == last'.op \in ops

\* C24 as stated: whenever a loader runs with a user signed in and the cache
\* manager holds a valid entry for the key of a slice inside the freshness window
\* of the slice, the loader sets the slice from the cached value and sends no
\* backend query for it; a query is sent only on a miss or a stale entry.
C24_CacheFirst ==
    [][/\ (dPc = "idle" /\ dPc' = "query") =>
              ~FreshlyCached(CACHE_KEYS.domainExpiry, DomainWindow)
       /\ (cPc = "idle" /\ cPc' = "query") =>
              ~FreshlyCached(CACHE_KEYS.commentNotifications, CommentsWindow)
       /\ \A c \in Calls :
            /\ (counts[c].pc = "idle" /\ counts'[c].pc = "queryNotifications") =>
                   ~FreshlyCached(CACHE_KEYS.notificationCounts, NotificationsWindow)
            /\ (counts[c].pc # "queryMessages" /\ counts'[c].pc = "queryMessages") =>
                   ~FreshlyCached(CACHE_KEYS.messageCounts, MessagesWindow)
       /\ (/\ LoaderCalled({"refreshAllData", "loadDomainExpiryData"})
           /\ FreshlyCached(CACHE_KEYS.domainExpiry, DomainWindow)) =>
              expiringDomainsCount' = Cached(storage, now, CACHE_KEYS.domainExpiry).count
       /\ (/\ LoaderCalled({"refreshAllData", "loadCommentNotifications"})
           /\ FreshlyCached(CACHE_KEYS.commentNotifications, CommentsWindow)) =>
              unreadCommentCount' =
                  Cached(storage, now, CACHE_KEYS.commentNotifications).count
       /\ (/\ LoaderCalled({"refreshAllData", "notificationsEvent", "messagesEvent"})
           /\ FreshlyCached(CACHE_KEYS.notificationCounts, NotificationsWindow)) =>
              unreadNotificationsCount' =
                  Cached(storage, now, CACHE_KEYS.notificationCounts).count]_vars

\* the update of markCommentAsRead or clearAllComments has just settled
UpdateSettled(answers) == last'.slice = "answered" /\ last'.answer \in answers

\* C25 as stated: after markCommentAsRead(id) or clearAllComments() succeeded on
\* the backend and changed rows there, the cache holds no entry for the comment
\* notifications nor for the unread-notification count; after the update failed,
\* neither the state slices nor the store have changed.
C25_MutateThenInvalidate ==
    [][/\ (UpdateSettled({"ok"}) /\ bUnread' # bUnread) =>
              (/\ ~HasItem(storage', CACHE_KEYS.commentNotifications)
               /\ ~HasItem(storage', CACHE_KEYS.notificationCounts))
       /\ UpdateSettled({"error", "throws"}) =>
              UNCHANGED <<storage, commentNotifications, unreadCommentCount,
                          unreadNotificationsCount, unreadMessagesCount,
                          expiringDomainsCount>>]_vars

\* C28 as stated: unreadCommentCount is never negative and, with no load and no
\* update in flight, equals the number of loaded comment notifications that are
\* unread on the backend (so that markCommentAsRead for an id that is already
\* read, or in no list, does not decrement it).
C28_UnreadCommentCount ==
    /\ unreadCommentCount >= 0
    /\ (cPc = "idle" /\ mPc = NoMutation) =>
           unreadCommentCount = Cardinality(bUnread \cap commentNotifications)

\* a change event of the table has just been handled
EventHandled(op) == last'.op = op

\* C30 as stated: the reload a change event on notifications or messages triggers
\* is not satisfied by a cache entry written before the event: it queries the
\* backend for the table of the event; so when no invocation of the loader is in
\* flight after the event, the counts in state are those of the backend.
C30_EventReloads ==
    [][/\ EventHandled("notificationsEvent") =>
              \E c \in Calls :
                  counts[c].pc = "idle" /\ counts'[c].pc = "queryNotifications"
       /\ EventHandled("messagesEvent") =>
              \E c \in Calls :
                  counts[c].pc = "idle" /\ counts'[c].pc # "idle"
       /\ (/\ EventHandled("notificationsEvent") \/ EventHandled("messagesEvent")
           /\ \A c \in Calls : counts'[c].pc = "idle") =>
              (/\ unreadNotificationsCount' = Cardinality(bUnread')
               /\ unreadMessagesCount' = bMessages')]_vars

====
